---------------------------- MODULE Spec2Model ----------------------------
(***************************************************************************)
(* The fetch/export pipeline of src/main.go: fetchAndExportCustomers       *)
(* calls executeGraphQLQuery (one HTTP POST under the context deadline),   *)
(* checks the decoded response for GraphQL errors and hands the edges to   *)
(* exportToCSV, which writes them through a buffered csv.Writer.           *)
(*                                                                         *)
(* Strings that the program inspects or transforms are sequences of        *)
(* one-character strings; a decimal is a coefficient and a scale.          *)
(***************************************************************************)
EXTENDS Integers, Sequences, FiniteSets, TLC

\* ------------------------------------------------------------------ bounds
\* Longest edges list a response carries.
MaxRecords == 3
\* Longest errors list a response carries.
MaxErrors == 1
\* Lines the writer's buffer holds before a Write pushes it to the
\* destination (bufio's buffer, counted in lines instead of bytes).
BufCap == 2

\* http.StatusOK
StatusOK == 200

\* ------------------------------------------------------------- wire values
\* The "defaultEmailAddress" member of a node on the wire: absent, null,
\* or an object that may or may not carry "emailAddress".
WireAbsent == [tag |-> "absent", emailAddress |-> <<>>]
WireNull == [tag |-> "null", emailAddress |-> <<>>]
WireEmptyObject == [tag |-> "object", emailAddress |-> <<>>]
WireEmail(s) == [tag |-> "object", emailAddress |-> s]

WireNode(id, name, mail, coef, scale, cur) ==
    [id |-> id, displayName |-> name, defaultEmailAddress |-> mail,
     amount |-> [coef |-> coef, scale |-> scale], currencyCode |-> cur]

\* The nodes a response is built from: no email / an email / an email
\* object with an empty address / a null email; names with a comma and a
\* quote; amounts 100, 12.345, -0.005 and 0.994.
WireNodes ==
    { WireNode(<<"1">>, <<"J", " ", "D">>, WireAbsent, 100, 0, <<"U">>),
      WireNode(<<"2">>, <<"J", ",">>, WireEmail(<<"e">>), 12345, 3, <<"U">>),
      WireNode(<<"3">>, <<"\"">>, WireEmptyObject, -5, 3, <<"E">>),
      WireNode(<<"4">>, <<"K">>, WireNull, 994, 3, <<"E">>) }

RECURSIVE SeqsUpTo(_, _)
\* All sequences over S of length at most n.
SeqsUpTo(S, n) ==
    IF n = 0 THEN { <<>> }
    ELSE LET shorter == SeqsUpTo(S, n - 1)
         IN  shorter \cup { Append(s, x) : s \in shorter, x \in S }

\* Response bodies: text that is no JSON ("Unauthorized"), and GraphQL
\* documents with an errors list and an edges list.
TextBody == [json |-> FALSE, text |-> "Unauthorized", errors |-> <<>>, edges |-> <<>>]
JsonBody(errs, edges) == [json |-> TRUE, text |-> "", errors |-> errs, edges |-> edges]
Bodies ==
    { TextBody } \cup
    { JsonBody(e, n) : e \in SeqsUpTo({"m"}, MaxErrors),
                       n \in SeqsUpTo(WireNodes, MaxRecords) }

\* Status codes a server answers with.
Statuses == {200, 201, 401, 500}

\* ---------------------------------------------------------------- decoding
\* type DefaultEmail / Node.DefaultEmailAddress *DefaultEmail: nil for an
\* absent or null member, otherwise a DefaultEmail whose EmailAddress is the
\* member's "emailAddress" ("" when the object has none).
DecodeEmail(w) ==
    IF w.tag \in {"absent", "null"}
    THEN [isNil |-> TRUE, EmailAddress |-> <<>>]
    ELSE [isNil |-> FALSE, EmailAddress |-> w.emailAddress]

\* type Node, MonetaryAmount
DecodeNode(w) ==
    [ID |-> w.id, DisplayName |-> w.displayName,
     DefaultEmailAddress |-> DecodeEmail(w.defaultEmailAddress),
     Amount |-> w.amount, CurrencyCode |-> w.currencyCode]

\* type GraphQLResponse, as json.Decode fills it from a JSON body.
DecodeResponse(b) ==
    [Errors |-> b.errors,
     Edges |-> [i \in 1..Len(b.edges) |-> DecodeNode(b.edges[i])]]

NoResponse == [Errors |-> <<>>, Edges |-> <<>>]

\* ------------------------------------------------------------ CSV encoding
Digits == <<"0", "1", "2", "3", "4", "5", "6", "7", "8", "9">>

RECURSIVE IntToChars(_)
IntToChars(n) ==
    IF n < 10 THEN <<Digits[n + 1]>>
    ELSE IntToChars(n \div 10) \o <<Digits[(n % 10) + 1]>>

RECURSIVE Pow10(_)
Pow10(k) == IF k = 0 THEN 1 ELSE 10 * Pow10(k - 1)

Abs(x) == IF x < 0 THEN -x ELSE x

\* decimal.Decimal.Round(2): the number of hundredths, half away from zero.
RoundToCents(d) ==
    IF d.scale <= 2 THEN Abs(d.coef) * Pow10(2 - d.scale)
    ELSE ((Abs(d.coef) \div Pow10(d.scale - 3)) + 5) \div 10

\* decimal.Decimal.StringFixed(2)
StringFixed2(d) ==
    LET cents == RoundToCents(d)
        sign == IF d.coef < 0 /\ cents # 0 THEN <<"-">> ELSE <<>>
    IN  sign \o IntToChars(cents \div 100) \o <<".">>
             \o <<Digits[((cents \div 10) % 10) + 1], Digits[(cents % 10) + 1]>>

\* The header row of exportToCSV.
Header ==
    << <<"I", "D">>,
       <<"D", "i", "s", "p", "l", "a", "y", " ", "N", "a", "m", "e">>,
       <<"E", "m", "a", "i", "l", " ", "A", "d", "d", "r", "e", "s", "s">>,
       <<"A", "m", "o", "u", "n", "t", " ", "S", "p", "e", "n", "t">>,
       <<"C", "u", "r", "r", "e", "n", "c", "y", " ", "C", "o", "d", "e">> >>

\* An email column that writes a placeholder for a nil DefaultEmailAddress.
EmailColumnPlaceholder(c) ==
    IF c.DefaultEmailAddress.isNil THEN <<"-">> ELSE c.DefaultEmailAddress.EmailAddress

\* The email column: "" for a nil DefaultEmailAddress.
EmailColumn(c) ==
    IF c.DefaultEmailAddress.isNil THEN <<>> ELSE c.DefaultEmailAddress.EmailAddress

\* The record with its first two columns exchanged.
RecordOfSwapped(c) ==
    << c.DisplayName, c.ID,
       IF c.DefaultEmailAddress.isNil THEN <<>> ELSE c.DefaultEmailAddress.EmailAddress,
       StringFixed2(c.Amount), c.CurrencyCode >>

\* The record exportToCSV builds for one customer.
RecordOf(c) ==
    << c.ID, c.DisplayName, EmailColumn(c), StringFixed2(c.Amount), c.CurrencyCode >>

SpecialChars == {",", "\"", "\n", "\r"}

\* csv.Writer.fieldNeedsQuotes
FieldNeedsQuotes(f) ==
    /\ f # <<>>
    /\ \/ f = <<"\\", ".">>
       \/ \E i \in 1..Len(f) : f[i] \in SpecialChars
       \/ f[1] = " "

RECURSIVE DoubleQuotes(_)
DoubleQuotes(f) ==
    IF f = <<>> THEN <<>>
    ELSE (IF Head(f) = "\"" THEN <<"\"", "\"">> ELSE <<Head(f)>>) \o DoubleQuotes(Tail(f))

EncodeField(f) ==
    IF FieldNeedsQuotes(f) THEN <<"\"">> \o DoubleQuotes(f) \o <<"\"">> ELSE f

RECURSIVE JoinFields(_)
JoinFields(r) ==
    IF Len(r) = 1 THEN EncodeField(r[1])
    ELSE EncodeField(Head(r)) \o <<",">> \o JoinFields(Tail(r))

\* The line csv.Writer.Write hands to its buffer for one record.
EncodeRow(r) == JoinFields(r) \o <<"\n">>

\* ------------------------------------------------------- the buffered writer
\* The writer of exportToCSV: buf holds the lines not yet pushed to the
\* destination, out is the destination's content, err the buffer's sticky
\* error. A push that fails leaves the first k lines of the buffer at the
\* destination.
PushFailed(w, k) ==
    LET n == IF k < Len(w.buf) THEN k ELSE Len(w.buf) - 1
    IN  [buf |-> SubSeq(w.buf, n + 1, Len(w.buf)),
         out |-> w.out \o SubSeq(w.buf, 1, n), err |-> TRUE]

\* csv.Writer.Write: the line goes to the buffer; a full buffer is pushed to
\* the destination first, and the push's failure is the Write's error.
WriterWrite(w, line, fail, k) ==
    IF w.err THEN [w |-> w, ok |-> FALSE]
    ELSE IF Len(w.buf) < BufCap
    THEN [w |-> [w EXCEPT !.buf = Append(w.buf, line)], ok |-> TRUE]
    ELSE IF fail THEN [w |-> PushFailed(w, k), ok |-> FALSE]
    ELSE [w |-> [buf |-> <<line>>, out |-> w.out \o w.buf, err |-> FALSE],
          ok |-> TRUE]

\* csv.Writer.Flush: pushes the buffer; it returns nothing, the failure
\* stays in the writer.
WriterFlush(w, fail, k) ==
    IF w.err \/ w.buf = <<>> THEN w
    ELSE IF fail THEN PushFailed(w, k)
    ELSE [buf |-> <<>>, out |-> w.out \o w.buf, err |-> FALSE]

\* --------------------------------------------------------------------- state
VARIABLES
    pc,             \* where the invocation stands
    expired,        \* ctx.Done() is closed (the 5 second deadline passed)
    configOK,       \* SHOPIFY_DOMAIN and SHOPIFY_ACCESS_TOKEN are set
    filename,       \* the --output flag
    doCause,        \* why client.Do failed: "none", "deadline", "transport"
    status,         \* resp.StatusCode
    body,           \* the response body on the wire
    readCut,        \* why reading the body stopped early, or "none"
    execErr,        \* the error executeGraphQLQuery returned
    execResp,       \* the *GraphQLResponse it returned
    httpErr,        \* what the "HTTP %d: %s" error carries
    invoked,        \* exportToCSV was called
    customers,      \* the edges handed to exportToCSV
    expiredOnEntry, \* expired, when exportToCSV was entered
    file,           \* the *os.File: "none", "open", "closed"
    writer,         \* the csv.Writer and its destination
    events,         \* create / flush / close, in the order they happened
    i,              \* index of the record the loop is at
    exportErr,      \* the error exportToCSV returned
    result,         \* the error fetchAndExportCustomers returned
    printed         \* the count of the success message, -1 when not printed

vars == << pc, expired, configOK, filename, doCause, status, body, readCut,
           execErr, execResp, httpErr, invoked, customers, expiredOnEntry,
           file, writer, events, i, exportErr, result, printed >>

netVars == << doCause, status, body, readCut, execErr, execResp, httpErr >>
exportVars == << invoked, customers, expiredOnEntry, file, writer, events, i,
                 exportErr >>

\* A line left in the output file by an earlier run.
OldLine == <<"o", "l", "d", "\n">>

NoHttpErr == [status |-> 0, body |-> TextBody, complete |-> TRUE]

Init ==
    /\ pc = "entry"
    /\ expired = FALSE
    /\ configOK \in BOOLEAN
    /\ filename \in {"", "customers.csv"}
    /\ doCause = "none"
    /\ status = 0
    /\ body = TextBody
    /\ readCut = "none"
    /\ execErr = "pending"
    /\ execResp = NoResponse
    /\ httpErr = NoHttpErr
    /\ invoked = FALSE
    /\ customers = <<>>
    /\ expiredOnEntry = FALSE
    /\ file = "none"
    /\ \E old \in {<<>>, <<OldLine>>} :
          writer = [buf |-> <<>>, out |-> IF filename = "" THEN <<>> ELSE old,
                    err |-> FALSE]
    /\ events = <<>>
    /\ i = 1
    /\ exportErr = "pending"
    /\ result = "pending"
    /\ printed = -1

\* context.WithTimeout(..., 5*time.Second): the timer fires.
DeadlineExpires ==
    /\ pc # "done"
    /\ ~expired
    /\ expired' = TRUE
    /\ UNCHANGED << pc, configOK, filename, netVars, exportVars, result, printed >>

\* fetchAndExportCustomers up to the call of executeGraphQLQuery.
Entry ==
    /\ pc = "entry"
    /\ IF configOK
       THEN /\ pc' = "request"
            /\ UNCHANGED result
       ELSE /\ pc' = "done"
            /\ result' = "ConfigError"
    /\ UNCHANGED << expired, configOK, filename, netVars, exportVars, printed >>

\* client.Do(req) returns: an error once the context is done, otherwise a
\* response's status line and headers or a transport failure. (The client's
\* own Timeout of 5 seconds starts after the context's and ends after it.)
ClientDo ==
    /\ pc = "request"
    /\ \/ /\ expired
          /\ doCause' = "deadline"
          /\ pc' = "doFailed"
          /\ UNCHANGED << status, body >>
       \/ /\ ~expired
          /\ \E s \in Statuses, b \in Bodies :
                /\ status' = s
                /\ body' = b
          /\ pc' = "response"
          /\ UNCHANGED doCause
       \/ /\ ~expired
          /\ doCause' = "transport"
          /\ pc' = "doFailed"
          /\ UNCHANGED << status, body >>
    /\ UNCHANGED << expired, configOK, filename, readCut, execErr, execResp,
                    httpErr, exportVars, result, printed >>

\* The error executeGraphQLQuery makes of a failed client.Do.
DoError(ctxExpired) == IF ctxExpired THEN "Timeout" ELSE "Transport"

\* executeGraphQLQuery's err != nil branch after client.Do, and the caller's
\* "GraphQL query failed" return.
ClassifyDoError ==
    /\ pc = "doFailed"
    /\ execErr' = DoError(expired)
    /\ result' = "QueryFailed"
    /\ pc' = "done"
    /\ UNCHANGED << expired, configOK, filename, doCause, status, body, readCut,
                    execResp, httpErr, exportVars, printed >>

\* Ways the read of the body can end: whole, cut by the connection, or (once
\* the context is done) cut by the deadline.
ReadEnds == {"none", "transport"} \cup (IF expired THEN {"deadline"} ELSE {})

\* A status test that lets every 2xx status through.
IsErrorStatusNon2xx(s) == s < 200 \/ s > 299

\* The status test of executeGraphQLQuery.
IsErrorStatus(s) == s # StatusOK

\* The test on resp.Errors left out.
HasGraphQLErrorsNever(r) == FALSE

\* The test fetchAndExportCustomers makes on the returned response.
HasGraphQLErrors(r) == Len(r.Errors) > 0

\* executeGraphQLQuery from the status test to its return, and the caller's
\* tests of the returned error and of resp.Errors.
ReadResponse ==
    /\ pc = "response"
    /\ \E cut \in ReadEnds :
          /\ readCut' = cut
          /\ IF IsErrorStatus(status)
             THEN /\ httpErr' = [status |-> status, body |-> body,
                                 complete |-> (cut = "none")]
                  /\ execErr' = "HttpError"
                  /\ result' = "QueryFailed"
                  /\ pc' = "done"
                  /\ UNCHANGED << execResp, customers, invoked >>
             ELSE IF cut # "none" \/ ~body.json
             THEN /\ execErr' = "DecodeError"
                  /\ result' = "QueryFailed"
                  /\ pc' = "done"
                  /\ UNCHANGED << httpErr, execResp, customers, invoked >>
             ELSE /\ execErr' = "nil"
                  /\ execResp' = DecodeResponse(body)
                  /\ UNCHANGED httpErr
                  /\ IF HasGraphQLErrors(execResp')
                     THEN /\ result' = "GraphQLErrors"
                          /\ pc' = "done"
                          /\ UNCHANGED << customers, invoked >>
                     ELSE /\ customers' = execResp'.Edges
                          /\ invoked' = TRUE
                          /\ pc' = "export"
                          /\ UNCHANGED result
    /\ UNCHANGED << expired, configOK, filename, doCause, status, body,
                    expiredOnEntry, file, writer, events, i, exportErr, printed >>

\* An exportToCSV that tests the context before it opens its destination.
OpenDestinationChecksCtx ==
    /\ pc = "export"
    /\ expiredOnEntry' = expired
    /\ IF expired
       THEN /\ exportErr' = "Cancelled"
            /\ pc' = "returned"
            /\ UNCHANGED << file, writer, events >>
       ELSE IF filename = ""
       THEN /\ pc' = "header"
            /\ UNCHANGED << file, writer, events, exportErr >>
       ELSE \E created \in BOOLEAN :
               IF created
               THEN /\ file' = "open"
                    /\ writer' = [writer EXCEPT !.out = <<>>]
                    /\ events' = Append(events, "create")
                    /\ pc' = "header"
                    /\ UNCHANGED exportErr
               ELSE /\ exportErr' = "CreateError"
                    /\ pc' = "returned"
                    /\ UNCHANGED << file, writer, events >>
    /\ UNCHANGED << expired, configOK, filename, netVars, invoked, customers,
                    i, result, printed >>

\* exportToCSV opens its destination: os.Stdout for an empty filename,
\* otherwise os.Create, which truncates the file or fails; then the two
\* defers are registered.
OpenDestination ==
    /\ pc = "export"
    /\ expiredOnEntry' = expired
    /\ IF filename = ""
       THEN /\ pc' = "header"
            /\ UNCHANGED << file, writer, events, exportErr >>
       ELSE \E created \in BOOLEAN :
               IF created
               THEN /\ file' = "open"
                    /\ writer' = [writer EXCEPT !.out = <<>>]
                    /\ events' = Append(events, "create")
                    /\ pc' = "header"
                    /\ UNCHANGED exportErr
               ELSE /\ exportErr' = "CreateError"
                    /\ pc' = "returned"
                    /\ UNCHANGED << file, writer, events >>
    /\ UNCHANGED << expired, configOK, filename, netVars, invoked, customers,
                    i, result, printed >>

\* writer.Write(header)
WriteHeader ==
    /\ pc = "header"
    /\ \E fail \in BOOLEAN, k \in 0..(BufCap - 1) :
          LET r == WriterWrite(writer, EncodeRow(Header), fail, k)
          IN  /\ writer' = r.w
              /\ IF r.ok
                 THEN /\ pc' = "loop"
                      /\ UNCHANGED exportErr
                 ELSE /\ exportErr' = "WriteError"
                      /\ pc' = "flush"
    /\ UNCHANGED << expired, configOK, filename, netVars, invoked, customers,
                    expiredOnEntry, file, events, i, result, printed >>

\* A loop that never looks at ctx.Done().
CancelledNever(ctxExpired) == FALSE

\* The select of the loop: the ctx.Done() case is taken when the context is
\* done.
Cancelled(ctxExpired) == ctxExpired

\* One turn of the loop over customers, or its end.
LoopStep ==
    /\ pc = "loop"
    /\ IF i > Len(customers)
       THEN /\ exportErr' = "nil"
            /\ pc' = "flush"
            /\ UNCHANGED << writer, i >>
       ELSE IF Cancelled(expired)
       THEN /\ exportErr' = "Cancelled"
            /\ pc' = "flush"
            /\ UNCHANGED << writer, i >>
       ELSE \E fail \in BOOLEAN, k \in 0..(BufCap - 1) :
               LET r == WriterWrite(writer, EncodeRow(RecordOf(customers[i])), fail, k)
               IN  /\ writer' = r.w
                   /\ IF r.ok
                      THEN /\ i' = i + 1
                           /\ UNCHANGED << pc, exportErr >>
                      ELSE /\ exportErr' = "WriteError"
                           /\ pc' = "flush"
                           /\ UNCHANGED i
    /\ UNCHANGED << expired, configOK, filename, netVars, invoked, customers,
                    expiredOnEntry, file, events, result, printed >>

\* defer writer.Flush(), the defer registered last and run first.
DeferredFlush ==
    /\ pc = "flush"
    /\ \E fail \in BOOLEAN, k \in 0..(BufCap - 1) :
          writer' = WriterFlush(writer, fail, k)
    /\ events' = Append(events, "flush")
    /\ pc' = "close"
    /\ UNCHANGED << expired, configOK, filename, netVars, invoked, customers,
                    expiredOnEntry, file, i, exportErr, result, printed >>

\* exportToCSV without its defer file.Close().
DeferredCloseMissing ==
    /\ pc = "close"
    /\ pc' = "returned"
    /\ UNCHANGED << expired, configOK, filename, netVars, exportVars, result, printed >>

\* defer file.Close(), registered only when a file was created.
DeferredClose ==
    /\ pc = "close"
    /\ IF file = "open"
       THEN /\ file' = "closed"
            /\ events' = Append(events, "close")
       ELSE UNCHANGED << file, events >>
    /\ pc' = "returned"
    /\ UNCHANGED << expired, configOK, filename, netVars, invoked, customers,
                    expiredOnEntry, writer, i, exportErr, result, printed >>

\* fetchAndExportCustomers after exportToCSV returned: the wrapped error, or
\* the success message and nil.
ExportReturns ==
    /\ pc = "returned"
    /\ IF exportErr # "nil"
       THEN /\ result' = "ExportFailed"
            /\ UNCHANGED printed
       ELSE /\ printed' = Len(customers)
            /\ result' = "nil"
    /\ pc' = "done"
    /\ UNCHANGED << expired, configOK, filename, netVars, exportVars >>

Next ==
    \/ DeadlineExpires
    \/ Entry
    \/ ClientDo
    \/ ClassifyDoError
    \/ ReadResponse
    \/ OpenDestination
    \/ WriteHeader
    \/ LoopStep
    \/ DeferredFlush
    \/ DeferredClose
    \/ ExportReturns

Spec == Init /\ [][Next]_vars

\* ------------------------------------------------------------ type invariant
TypeOK ==
    /\ pc \in {"entry", "request", "doFailed", "response", "export", "header",
               "loop", "flush", "close", "returned", "done"}
    /\ expired \in BOOLEAN
    /\ doCause \in {"none", "deadline", "transport"}
    /\ readCut \in {"none", "deadline", "transport"}
    /\ execErr \in {"pending", "nil", "Timeout", "Transport", "HttpError", "DecodeError"}
    /\ exportErr \in {"pending", "nil", "CreateError", "WriteError", "Cancelled"}
    /\ result \in {"pending", "nil", "ConfigError", "QueryFailed", "GraphQLErrors",
                   "ExportFailed"}
    /\ file \in {"none", "open", "closed"}
    /\ i \in 1..(Len(customers) + 1)
    /\ Len(writer.buf) <= BufCap

\* ------------------------------------------------- reading the output back
RECURSIVE Flatten(_)
\* The destination's content as one sequence of characters.
Flatten(lines) ==
    IF lines = <<>> THEN <<>> ELSE Head(lines) \o Flatten(Tail(lines))

\* The elements of a set of numbers in increasing order.
SortedSeq(S) ==
    [k \in 1..Cardinality(S) |->
        CHOOSE p \in S : Cardinality({q \in S : q < p}) = k - 1]

\* The stretches <<first, last>> that the positions seps cut a..b into.
Pieces(a, b, seps) ==
    LET ss == SortedSeq(seps)
        m == Len(ss)
    IN  [k \in 1..(m + 1) |->
            << IF k = 1 THEN a ELSE ss[k - 1] + 1,
               IF k = m + 1 THEN b ELSE ss[k] - 1 >>]

NonEmptyPiece(pr) == pr[1] <= pr[2]

RECURSIVE Undouble(_)
\* The content of a quoted field: each doubled quote is one quote.
Undouble(f) ==
    IF f = <<>> THEN <<>>
    ELSE IF Head(f) = "\"" /\ Len(f) >= 2 /\ f[2] = "\""
    THEN <<"\"">> \o Undouble(Tail(Tail(f)))
    ELSE <<Head(f)>> \o Undouble(Tail(f))

Unquote(f) ==
    IF f # <<>> /\ f[1] = "\"" THEN Undouble(SubSeq(f, 2, Len(f) - 1)) ELSE f

\* A CSV reader: a comma or a line end counts when an even number of quotes
\* precedes it; a line end closes a row, a comma a field; empty lines are
\* skipped; a field that starts with a quote is unquoted.
ParseCSV(s) ==
    LET n == Len(s)
        quotes == {q \in 1..n : s[q] = "\""}
        Outside(p) == Cardinality({q \in quotes : q < p}) % 2 = 0
        lineEnds == {p \in 1..n : s[p] = "\n" /\ Outside(p)}
        commas == {p \in 1..n : s[p] = "," /\ Outside(p)}
        lines == SelectSeq(Pieces(1, n, lineEnds), NonEmptyPiece)
        FieldsOf(pr) ==
            LET fs == Pieces(pr[1], pr[2], {p \in commas : pr[1] <= p /\ p <= pr[2]})
            IN  [k \in 1..Len(fs) |-> Unquote(SubSeq(s, fs[k][1], fs[k][2]))]
    IN  [r \in 1..Len(lines) |-> FieldsOf(lines[r])]

RECURSIVE CharsToInt(_)
\* The number a sequence of digits writes.
CharsToInt(ds) ==
    IF ds = <<>> THEN 0
    ELSE 10 * CharsToInt(SubSeq(ds, 1, Len(ds) - 1))
         + (CHOOSE d \in 0..9 : Digits[d + 1] = ds[Len(ds)])

IsDigits(ds) == \A j \in 1..Len(ds) : \E d \in 1..10 : Digits[d] = ds[j]

\* f is "[-]digits.dd" and the number it writes is within half a hundredth
\* of the decimal d.
IsFixed2Of(f, d) ==
    LET neg == f # <<>> /\ f[1] = "-"
        g == IF neg THEN Tail(f) ELSE f
        n == Len(g)
    IN  /\ n >= 4
        /\ g[n - 2] = "."
        /\ IsDigits(SubSeq(g, 1, n - 3))
        /\ IsDigits(SubSeq(g, n - 1, n))
        /\ LET mag == 100 * CharsToInt(SubSeq(g, 1, n - 3)) + CharsToInt(SubSeq(g, n - 1, n))
               cents == IF neg THEN -mag ELSE mag
           IN  /\ neg => mag # 0
               /\ 2 * Abs(cents * Pow10(d.scale) - 100 * d.coef) <= Pow10(d.scale)

\* What was read back from the destination.
ReadBack == ParseCSV(Flatten(writer.out))

\* The lines exportToCSV writes for the header and the first n customers.
LinesFor(n) ==
    <<EncodeRow(Header)>> \o [j \in 1..n |-> EncodeRow(RecordOf(customers[j]))]

Returned == pc \in {"returned", "done"}
Decoded == status = StatusOK /\ body.json /\ readCut = "none"

\* -------------------------------------------------------------------- claims

\* C1 as stated: for every decoded response whose errors list is non-empty,
\* executeGraphQLQuery itself returns a GraphQLError and no response, and
\* exportToCSV is not called.
C1_ExecuteReturnsGraphQLError ==
    (pc = "done" /\ Decoded /\ Len(body.errors) > 0)
        => /\ execErr = "GraphQLError"
           /\ execResp = NoResponse
           /\ ~invoked

\* C1 amended: for a decoded response (status 200) whose errors list is
\* non-empty, executeGraphQLQuery returns the decoded response, errors and
\* edges, with a nil error; fetchAndExportCustomers then fails with the
\* "GraphQL errors" error and never calls exportToCSV. exportToCSV is only
\* ever called with the edges of a status 200 response without errors.
C1_GraphQLErrorsFailInCaller ==
    /\ (pc = "done" /\ Decoded /\ Len(body.errors) > 0)
          => /\ execErr = "nil"
             /\ execResp.Errors = body.errors
             /\ Len(execResp.Edges) = Len(body.edges)
             /\ result = "GraphQLErrors"
             /\ ~invoked
             /\ printed = -1
    /\ invoked => /\ status = StatusOK
                  /\ body.errors = <<>>
                  /\ Len(customers) = Len(body.edges)

C1_Witness ==
    /\ pc = "done"
    /\ result = "GraphQLErrors"
    /\ Len(execResp.Errors) > 0
    /\ Len(execResp.Edges) > 0

\* C2: when the deadline ends the network call (in client.Do or while the
\* body is read) executeGraphQLQuery returns the Timeout error, and a
\* transport failure the deadline did not cause is never returned as Timeout.
C2_DeadlineIsTimeout ==
    pc = "done" =>
        /\ (doCause = "deadline" \/ readCut = "deadline") => execErr = "Timeout"
        /\ (doCause = "transport" \/ readCut = "transport") => execErr # "Timeout"

\* C3 as stated: executeGraphQLQuery returns an HttpError exactly when the
\* status is not a 2xx status, with the status and the whole body; every 2xx
\* body is decoded.
C3_HttpErrorIffNon2xx ==
    (pc = "done" /\ status # 0) =>
        /\ (execErr = "HttpError") <=> (status < 200 \/ status > 299)
        /\ execErr = "HttpError" =>
              /\ httpErr.status = status
              /\ httpErr.body = body
              /\ httpErr.complete

\* C3 amended: once a response is obtained, executeGraphQLQuery returns an
\* HttpError exactly when the status is not 200 (201 and the other 2xx
\* statuses included); the error carries the status and the body as far as it
\* was read (the whole body unless the read was cut), no response is
\* returned and nothing is decoded; a status 200 body is decoded, giving the
\* response or a DecodeError.
C3_HttpErrorIffNot200 ==
    (pc = "done" /\ status # 0) =>
        /\ (execErr = "HttpError") <=> (status # StatusOK)
        /\ execErr = "HttpError" =>
              /\ httpErr.status = status
              /\ httpErr.body = body
              /\ httpErr.complete <=> (readCut = "none")
              /\ execResp = NoResponse
              /\ result = "QueryFailed"
              /\ ~invoked
        /\ status = StatusOK =>
              /\ execErr \in {"nil", "DecodeError"}
              /\ httpErr = NoHttpErr
              /\ (execErr = "nil") <=> (body.json /\ readCut = "none")
              /\ execErr = "nil" =>
                    /\ execResp.Errors = body.errors
                    /\ Len(execResp.Edges) = Len(body.edges)

C3_Witness ==
    /\ pc = "done"
    /\ status = 401
    /\ execErr = "HttpError"
    /\ httpErr = [status |-> 401, body |-> TextBody, complete |-> TRUE]

\* C4, the state after a cancelled export.
C4_Cancelled ==
    (Returned /\ exportErr = "Cancelled") =>
        /\ expired
        /\ i <= Len(customers)
        /\ writer.out \o writer.buf = LinesFor(i - 1)
        /\ ~writer.err => writer.out = LinesFor(i - 1)

\* C4, the step the loop takes when the context is done.
C4_Check ==
    (pc = "loop" /\ i <= Len(customers) /\ expired) =>
        /\ exportErr' = "Cancelled"
        /\ pc' = "flush"
        /\ writer' = writer
        /\ i' = i

\* C4: the loop tests the cancellation signal before each record: when it
\* is set the export stops with the Cancelled error without handing that
\* record or a later one to the writer, and the lines written before stay:
\* the output is the header and the records before the one the export
\* stopped at, in input order.
C4_CancelBeforeEachRow == []C4_Cancelled /\ [][C4_Check]_vars

C4_Witness ==
    /\ pc = "done"
    /\ exportErr = "Cancelled"
    /\ ~expiredOnEntry
    /\ i = 3
    /\ Len(customers) = 3
    /\ Len(writer.out) = 3

\* C5: whenever the invocation returns nil (and prints the count), the
\* response had no errors and the destination holds the header and all N
\* rows; in every other case it returns an error.
C5_NoPartialSuccess ==
    pc = "done" =>
        IF result = "nil"
        THEN /\ printed = Len(customers)
             /\ execResp.Errors = <<>>
             /\ writer.out = LinesFor(Len(customers))
        ELSE /\ result \in {"ConfigError", "QueryFailed", "GraphQLErrors", "ExportFailed"}
             /\ printed = -1

\* C6: a failure to write to the destination, also one that only shows when
\* the buffered writer pushes its lines out, ends the export with a
\* WriteError; the export never returns nil with a row missing from the
\* destination.
C6_WriteFailureIsReturned ==
    Returned =>
        /\ writer.err => exportErr = "WriteError"
        /\ exportErr = "nil" => writer.out = LinesFor(Len(customers))

\* C7: on every return of exportToCSV after its destination was opened
\* (the loop's end, a failed Write, cancellation) the writer was flushed
\* and, when a file was created, the file was closed after the flush; a
\* flush that did not fail leaves nothing in the buffer.
C7_FlushThenClose ==
    /\ (Returned /\ invoked /\ exportErr # "CreateError") =>
          /\ exportErr \in {"nil", "WriteError", "Cancelled"}
          /\ IF filename = ""
             THEN events = <<"flush">> /\ file = "none"
             ELSE events = <<"create", "flush", "close">> /\ file = "closed"
          /\ ~writer.err => writer.buf = <<>>
    /\ file = "closed" => events = <<"create", "flush", "close">>
    /\ (invoked /\ ~Returned /\ filename # "" /\ pc # "export") => file = "open"

C7_Witness ==
    /\ pc = "done"
    /\ exportErr = "Cancelled"
    /\ file = "closed"
    /\ Len(writer.out) = 2

\* C8: an export of N records that is neither cancelled nor hit by a write
\* failure leaves the header row followed by exactly N rows, the i-th row
\* made of the i-th record's id, display name, email, amount with two
\* decimals and currency code; the success message reports N (0 for an
\* empty list, whose output is the header row alone).
C8_HeaderAndRowsInOrder ==
    (pc = "done" /\ exportErr = "nil" /\ ~writer.err) =>
        LET rows == ReadBack
            n == Len(customers)
        IN  /\ Len(rows) = n + 1
            /\ rows[1] = Header
            /\ \A j \in 1..n :
                  /\ Len(rows[j + 1]) = 5
                  /\ rows[j + 1][1] = body.edges[j].id
                  /\ rows[j + 1][2] = body.edges[j].displayName
                  /\ IsFixed2Of(rows[j + 1][4], body.edges[j].amount)
                  /\ rows[j + 1][5] = body.edges[j].currencyCode
            /\ printed = n
            /\ result = "nil"
            /\ n = Len(body.edges)

C8_Witness ==
    /\ pc = "done"
    /\ exportErr = "nil"
    /\ ~writer.err
    /\ Len(customers) = 3
    /\ customers[1].ID = <<"2">>
    /\ customers[2].ID = <<"1">>
    /\ customers[3].ID = <<"2">>

\* C9 as stated: reading the CSV of N exported records back gives the header
\* and N rows, and a row's email field is empty exactly when its record has
\* no email (a nil DefaultEmailAddress).
C9_EmailEmptyIffAbsent ==
    (pc = "done" /\ exportErr = "nil" /\ ~writer.err) =>
        /\ Len(ReadBack) = Len(customers) + 1
        /\ \A j \in 1..Len(customers) :
              (ReadBack[j + 1][3] = <<>>) <=> customers[j].DefaultEmailAddress.isNil

\* C9 amended: reading the CSV of N exported records back gives the header
\* and N rows, and a row's email field is empty exactly when its record has
\* no email or has an email whose address is the empty string; a record
\* with an email has its address in the field.
C9_EmailEmptyIffAbsentOrEmpty ==
    (pc = "done" /\ exportErr = "nil" /\ ~writer.err) =>
        /\ Len(ReadBack) = Len(customers) + 1
        /\ \A j \in 1..Len(customers) :
              LET mail == customers[j].DefaultEmailAddress
                  wire == body.edges[j].defaultEmailAddress
              IN  /\ (ReadBack[j + 1][3] = <<>>)
                        <=> (mail.isNil \/ mail.EmailAddress = <<>>)
                  /\ ~mail.isNil => ReadBack[j + 1][3] = mail.EmailAddress
                  /\ mail.isNil <=> (wire.tag \in {"absent", "null"})

C9_Witness ==
    /\ pc = "done"
    /\ exportErr = "nil"
    /\ ~writer.err
    /\ Len(customers) = 3
    /\ customers[1].DefaultEmailAddress = [isNil |-> FALSE, EmailAddress |-> <<>>]
    /\ customers[2].DefaultEmailAddress = [isNil |-> FALSE, EmailAddress |-> <<"e">>]
    /\ customers[3].DefaultEmailAddress.isNil

\* C10: the context is looked at only in the loop over the records: with
\* the deadline already passed when exportToCSV is entered the destination
\* is still created or truncated and the header written; with no records
\* the export returns nil and success is reported, with one record or more
\* it returns the Cancelled error and leaves the header as the only line
\* (nothing when the flush of the header fails).
C10_ExpiredOnEntry ==
    (pc = "done" /\ invoked /\ expiredOnEntry /\ exportErr # "CreateError") =>
        /\ filename # "" => events[1] = "create"
        /\ writer.out = IF writer.err THEN <<>> ELSE <<EncodeRow(Header)>>
        /\ IF Len(customers) = 0
           THEN exportErr = "nil" /\ result = "nil" /\ printed = 0
           ELSE exportErr = "Cancelled" /\ result = "ExportFailed" /\ printed = -1

C10_Witness ==
    /\ pc = "done"
    /\ expiredOnEntry
    /\ Len(customers) = 2
    /\ exportErr = "Cancelled"
    /\ filename = "customers.csv"
    /\ writer.out = <<EncodeRow(Header)>>

====
